---- MODULE Spec2Model ----
(***************************************************************************)
(* The finance dashboard of src/app.py: the module-level series store      *)
(* built by load_data(), and the two request handlers dashboard() ("/")    *)
(* and api_data() ("/api/data") that filter one ticker's series.           *)
(*                                                                         *)
(* Conventions.  An optional value (Python None or a value) is a sequence  *)
(* of length at most one: <<>> is None, <<x>> is x.  A DataFrame is the    *)
(* sequence of its rows, a row is a record keyed by column name, with its  *)
(* label in the frame's index under "index".  A Timestamp is the ordinal   *)
(* of its day; floats are exact rationals, with the IEEE values inf (1/0)  *)
(* and NaN (0/0) kept apart.                                               *)
(***************************************************************************)
EXTENDS Integers, Sequences, FiniteSets, TLC

VARIABLES
    data,      \* the module-level store: ticker -> DataFrame (app.py:24)
    loaded,    \* history: the store exactly as load_data() returned it
    resp       \* the request being answered: its route and args, the status
               \* and body of the response on its way to the client, and the
               \* handler's filtered_data at its return; NoResponse between
               \* requests

vars == <<data, loaded, resp>>

----------------------------------------------------------------------------
(* Bounds of the model *)

\* days on the calendar of the CSV files
NumDates == 3

\* rows of the longest CSV file
MaxRows == 3

----------------------------------------------------------------------------
(* Values *)

None == <<>>

Some(x) == <<x>>

tickers == {"SPY", "AAPL", "NVDA", "TSLA", "MSFT"}

\* The text of a day, as the CSV files and the query strings write it and as
\* strftime('%Y-%m-%d') prints it.
IsoDate ==
    <<"2024-01-01", "2024-01-02", "2024-01-03", "2024-01-04", "2024-01-05",
      "2024-01-06", "2024-01-07", "2024-01-08", "2024-01-09">>

strftime(d) == IsoDate[d]

\* pd.to_datetime(s) of a string: the day it names; it raises on any text
\* that names none.
to_datetime_raises(s) == \A d \in DOMAIN IsoDate : IsoDate[d] # s

to_datetime(s) == CHOOSE d \in DOMAIN IsoDate : IsoDate[d] = s

\* float(s) as werkzeug's args.get(..., type=float) calls it: the numerals
\* of the model; any other text raises ValueError.
float ==
    ("-5" :> -5) @@ ("-1" :> -1) @@ ("0" :> 0) @@ ("10" :> 10) @@ ("20" :> 20)
    @@ ("40" :> 40) @@ ("50" :> 50) @@ ("100" :> 100) @@ ("150" :> 150)

\* request.args.get(key): the raw text of the parameter, or None
args_get(args, key) == args[key]

\* request.args.get(key, type=float): None when the parameter is absent and
\* when float() raises on it
args_get_float(args, key) ==
    IF args[key] = None THEN None
    ELSE IF args[key][1] \in DOMAIN float THEN Some(float[args[key][1]])
    ELSE None

\* request.args.get('ticker', 'AAPL')
args_get_ticker(args) ==
    IF args.ticker = None THEN "AAPL" ELSE args.ticker[1]

----------------------------------------------------------------------------
(* Floats that are not integers: Volume_Change_Pct *)

RECURSIVE Gcd(_, _)
Gcd(a, b) == IF b = 0 THEN a ELSE Gcd(b, a % b)

Abs(n) == IF n < 0 THEN -n ELSE n

NaN == [num |-> 0, den |-> 0]

Inf == [num |-> 1, den |-> 0]

Fraction(n, d) ==
    LET g == Gcd(Abs(n), d) IN [num |-> n \div g, den |-> d \div g]

\* (v / p - 1) * 100 in IEEE arithmetic: x/0 is inf for x > 0 and NaN for
\* x = 0, and both pass through the subtraction and the product
pct_of(v, p) ==
    IF p = 0 THEN (IF v = 0 THEN NaN ELSE Inf)
    ELSE Fraction((v - p) * 100, p)

\* x >= t for a float x and a finite t: false on NaN, true on inf
float_ge(x, t) ==
    IF x.den = 0 THEN x.num > 0 ELSE x.num >= t * x.den

----------------------------------------------------------------------------
(* pandas *)

\* df[df[col] >= x]
keep_ge(df, col, x) == SelectSeq(df, LAMBDA r : r[col] >= x)

\* df[df[col] <= x]
keep_le(df, col, x) == SelectSeq(df, LAMBDA r : r[col] <= x)

RECURSIVE insert_by_date(_, _)
insert_by_date(sorted, r) ==
    IF sorted = <<>> THEN <<r>>
    ELSE IF r.Date < Head(sorted).Date THEN <<r>> \o sorted
    ELSE <<Head(sorted)>> \o insert_by_date(Tail(sorted), r)

\* df.sort_values('Date'): a new frame, rows ascending by Date
RECURSIVE sort_values(_)
sort_values(df) ==
    IF df = <<>> THEN <<>>
    ELSE insert_by_date(sort_values(SubSeq(df, 1, Len(df) - 1)), df[Len(df)])

\* df['Volume'].pct_change() * 100: NaN for the first row, else the change
\* against the row before it in the frame
pct_change_100(df) ==
    [i \in 1..Len(df) |->
        IF i = 1 THEN NaN ELSE pct_of(df[i].Volume, df[i - 1].Volume)]

\* df['Volume_Change_Pct'] = col
with_change_column(df, col) ==
    [i \in 1..Len(df) |->
        [c \in DOMAIN df[i] \cup {"Volume_Change_Pct"} |->
            IF c = "Volume_Change_Pct" THEN col[i] ELSE df[i][c]]]

\* df.to_dict('records'): one mapping per row, keyed by column name; the
\* index is left out
to_dict_records(df) ==
    [i \in 1..Len(df) |-> [c \in DOMAIN df[i] \ {"index"} |-> df[i][c]]]

----------------------------------------------------------------------------
(* load_data *)

\* pd.read_csv, which labels the rows 0, 1, ... in file order, then
\* pd.to_datetime on the Date column
read_frame(csv) ==
    [i \in 1..Len(csv) |->
        [index |-> i - 1, Date |-> to_datetime(csv[i].Date),
         High |-> csv[i].High, Close |-> csv[i].Close,
         Volume |-> csv[i].Volume]]

load_data(files) == [t \in tickers |-> read_frame(files[t])]

----------------------------------------------------------------------------
(* dashboard(), the "/" route *)

\* `if start_date:` -- a parameter that is present and not the empty string
truthy(s) == s # None /\ s[1] # ""

\* positive without the test against zero
positive_not_none(x) == x # None

\* `x is not None and x > 0`
positive(x) == x # None /\ x[1] > 0

\* lines 44-47: pd.to_datetime raises on a date text it cannot parse
dashboard_date_raises(start_date, end_date) ==
    \/ truthy(start_date) /\ to_datetime_raises(start_date[1])
    \/ truthy(end_date) /\ to_datetime_raises(end_date[1])

\* lines 44-47
dashboard_date_filter(df, start_date, end_date) ==
    LET df1 == IF truthy(start_date)
               THEN keep_ge(df, "Date", to_datetime(start_date[1]))
               ELSE df
    IN  IF truthy(end_date)
        THEN keep_le(df1, "Date", to_datetime(end_date[1]))
        ELSE df1

\* lines 50-53
dashboard_volume_filter(df, min_volume, max_volume) ==
    LET df1 == IF positive(min_volume)
               THEN keep_ge(df, "Volume", min_volume[1])
               ELSE df
    IN  IF positive(max_volume)
        THEN keep_le(df1, "Volume", max_volume[1])
        ELSE df1

\* dashboard_price_filter with the bounds compared against High
dashboard_price_filter_on_high(df, min_price, max_price) ==
    LET df1 == IF positive(min_price)
               THEN keep_ge(df, "High", min_price[1])
               ELSE df
    IN  IF positive(max_price)
        THEN keep_le(df1, "High", max_price[1])
        ELSE df1

\* lines 56-59
dashboard_price_filter(df, min_price, max_price) ==
    LET df1 == IF positive(min_price)
               THEN keep_ge(df, "Close", min_price[1])
               ELSE df
    IN  IF positive(max_price)
        THEN keep_le(df1, "Close", max_price[1])
        ELSE df1

\* lines 62-68
dashboard_increase_filter(df, volume_increase_threshold) ==
    IF positive(volume_increase_threshold)
    THEN LET sorted == sort_values(df)
             changed == with_change_column(sorted, pct_change_100(sorted))
         IN  SelectSeq(changed,
                 LAMBDA r : float_ge(r.Volume_Change_Pct,
                                     volume_increase_threshold[1]))
    ELSE df

\* lines 41-68: the frame df that reaches `if not df.empty`
dashboard_df(store, args) ==
    LET df0 == store[args_get_ticker(args)]
        df1 == dashboard_date_filter(df0, args_get(args, "start_date"),
                                     args_get(args, "end_date"))
        df2 == dashboard_volume_filter(df1, args_get_float(args, "min_volume"),
                                       args_get_float(args, "max_volume"))
        df3 == dashboard_price_filter(df2, args_get_float(args, "min_price"),
                                      args_get_float(args, "max_price"))
    IN  dashboard_increase_filter(df3,
            args_get_float(args, "volume_increase_threshold"))

\* lines 39-78: filtered_data, None or a non-empty frame
dashboard_filtered_data(store, args) ==
    IF args_get_ticker(args) \in DOMAIN store
    THEN LET df == dashboard_df(store, args)
         IN  IF df # <<>> THEN Some(df) ELSE None
    ELSE None

Column(df, col) == [i \in 1..Len(df) |-> df[i][col]]

\* lines 81-138: the markup of one chart, the empty string (the empty
\* sequence of characters) when there is nothing to chart
chart_html(filtered_data, col) ==
    IF filtered_data # None
    THEN Some([x |-> Column(filtered_data[1], "Date"),
               y |-> Column(filtered_data[1], col)])
    ELSE <<>>

SetMin(S) == CHOOSE x \in S : \A y \in S : x <= y

SetMax(S) == CHOOSE x \in S : \A y \in S : x >= y

\* all_values over the frame of the default ticker alone
all_values_of_default(store, col) ==
    {store["AAPL"][i][col] : i \in 1..Len(store["AAPL"])}

\* lines 141-147: every value of one column, over every frame of the store
all_values(store, col) ==
    UNION {{store[t][i][col] : i \in 1..Len(store[t])} : t \in DOMAIN store}


\* lines 149-154: min() and max() of the three lists, with the value each
\* takes when its list is empty
ranges_of(all_dates, all_volumes, all_prices) ==
    [min_date |-> IF all_dates # {} THEN strftime(SetMin(all_dates)) ELSE "",
     max_date |-> IF all_dates # {} THEN strftime(SetMax(all_dates)) ELSE "",
     min_vol |-> IF all_volumes # {} THEN SetMin(all_volumes) ELSE 0,
     max_vol |-> IF all_volumes # {} THEN SetMax(all_volumes) ELSE 0,
     min_price_val |-> IF all_prices # {} THEN SetMin(all_prices) ELSE 0,
     max_price_val |-> IF all_prices # {} THEN SetMax(all_prices) ELSE 0]

\* lines 141-154: the ranges shown as filter defaults
global_ranges(store) ==
    ranges_of(all_values(store, "Date"), all_values(store, "Volume"),
              all_values(store, "Close"))

\* `a or b` on strings
str_or(a, b) == IF truthy(a) THEN a[1] ELSE b

\* `a if a is not None else b`
if_none(a, b) == IF a # None THEN a[1] ELSE b

\* lines 162-187
current_filters(args, ranges) ==
    LET default_min_price ==
            IF ranges.min_price_val > 0 THEN ranges.min_price_val ELSE 0
        default_max_price ==
            IF ranges.max_price_val > 0 THEN ranges.max_price_val ELSE 1000
        default_min_volume == IF ranges.min_vol > 0 THEN ranges.min_vol ELSE 0
        default_max_volume ==
            IF ranges.max_vol > 0 THEN ranges.max_vol ELSE 10000000
    IN  [start_date |-> str_or(args_get(args, "start_date"), ranges.min_date),
         end_date |-> str_or(args_get(args, "end_date"), ranges.max_date),
         min_volume |->
             if_none(args_get_float(args, "min_volume"), default_min_volume),
         max_volume |->
             if_none(args_get_float(args, "max_volume"), default_max_volume),
         min_price |->
             if_none(args_get_float(args, "min_price"), default_min_price),
         max_price |->
             if_none(args_get_float(args, "max_price"), default_max_price),
         \* the threshold, or '' (no characters) when it is None
         volume_increase_threshold |->
             args_get_float(args, "volume_increase_threshold")]

\* An exception that leaves a handler: Flask answers 500
InternalServerError(filtered_data) ==
    [status |-> 500, body |-> [error |-> "Internal Server Error"],
     filtered_data |-> filtered_data]

\* lines 167-188: the context render_template() is given
template_context(args, filtered_data, ranges) ==
    [price_html |-> chart_html(filtered_data, "Close"),
     volume_html |-> chart_html(filtered_data, "Volume"),
     tickers |-> tickers,
     selected_ticker |-> args_get_ticker(args),
     min_date |-> ranges.min_date,
     max_date |-> ranges.max_date,
     min_vol |-> ranges.min_vol,
     max_vol |-> ranges.max_vol,
     min_price_val |-> ranges.min_price_val,
     max_price_val |-> ranges.max_price_val,
     current_filters |-> current_filters(args, ranges)]

\* lines 80-188: the response once filtered_data is settled
dashboard_render(args, filtered_data, ranges) ==
    [status |-> 200,
     body |-> template_context(args, filtered_data, ranges),
     filtered_data |-> filtered_data]

\* lines 27-188: dashboard() on a request
dashboard(store, args) ==
    IF /\ args_get_ticker(args) \in DOMAIN store
       /\ dashboard_date_raises(args_get(args, "start_date"),
                                args_get(args, "end_date"))
    THEN InternalServerError(None)
    ELSE dashboard_render(args, dashboard_filtered_data(store, args),
                          global_ranges(store))

----------------------------------------------------------------------------
(* api_data(), the "/api/data" route *)

\* lines 206-209: pd.to_datetime raises on a date text it cannot parse
api_date_raises(start_date, end_date) ==
    \/ truthy(start_date) /\ to_datetime_raises(start_date[1])
    \/ truthy(end_date) /\ to_datetime_raises(end_date[1])

\* lines 206-209
api_date_filter(df, start_date, end_date) ==
    LET df1 == IF truthy(start_date)
               THEN keep_ge(df, "Date", to_datetime(start_date[1]))
               ELSE df
    IN  IF truthy(end_date)
        THEN keep_le(df1, "Date", to_datetime(end_date[1]))
        ELSE df1

\* lines 210-213
api_volume_filter(df, min_volume, max_volume) ==
    LET df1 == IF positive(min_volume)
               THEN keep_ge(df, "Volume", min_volume[1])
               ELSE df
    IN  IF positive(max_volume)
        THEN keep_le(df1, "Volume", max_volume[1])
        ELSE df1

\* lines 214-217
api_price_filter(df, min_price, max_price) ==
    LET df1 == IF positive(min_price)
               THEN keep_ge(df, "Close", min_price[1])
               ELSE df
    IN  IF positive(max_price)
        THEN keep_le(df1, "Close", max_price[1])
        ELSE df1

\* api_increase_filter without the sort
api_increase_filter_unsorted(df, volume_increase_threshold) ==
    IF positive(volume_increase_threshold)
    THEN LET changed == with_change_column(df, pct_change_100(df))
         IN  SelectSeq(changed,
                 LAMBDA r : float_ge(r.Volume_Change_Pct,
                                     volume_increase_threshold[1]))
    ELSE df

\* lines 220-223
api_increase_filter(df, volume_increase_threshold) ==
    IF positive(volume_increase_threshold)
    THEN LET sorted == sort_values(df)
             changed == with_change_column(sorted, pct_change_100(sorted))
         IN  SelectSeq(changed,
                 LAMBDA r : float_ge(r.Volume_Change_Pct,
                                     volume_increase_threshold[1]))
    ELSE df

\* lines 204-223: the frame df that reaches `if not df.empty`
api_df(store, args) ==
    LET df0 == store[args_get_ticker(args)]
        df1 == api_date_filter(df0, args_get(args, "start_date"),
                               args_get(args, "end_date"))
        df2 == api_volume_filter(df1, args_get_float(args, "min_volume"),
                                 args_get_float(args, "max_volume"))
        df3 == api_price_filter(df2, args_get_float(args, "min_price"),
                                args_get_float(args, "max_price"))
    IN  api_increase_filter(df3,
            args_get_float(args, "volume_increase_threshold"))

\* lines 202-226: filtered_data, the empty mapping {} or the list of records
api_filtered_data(store, args) ==
    IF args_get_ticker(args) \in DOMAIN store
    THEN LET df == api_df(store, args)
         IN  IF df # <<>> THEN to_dict_records(df) ELSE <<>>
    ELSE <<>>

\* The text of a Timestamp in a JSON body
http_date ==
    <<"Mon, 01 Jan 2024 00:00:00 GMT", "Tue, 02 Jan 2024 00:00:00 GMT",
      "Wed, 03 Jan 2024 00:00:00 GMT", "Thu, 04 Jan 2024 00:00:00 GMT",
      "Fri, 05 Jan 2024 00:00:00 GMT", "Sat, 06 Jan 2024 00:00:00 GMT",
      "Sun, 07 Jan 2024 00:00:00 GMT", "Mon, 08 Jan 2024 00:00:00 GMT",
      "Tue, 09 Jan 2024 00:00:00 GMT">>

\* line 228: jsonify(filtered_data), each Date as its text
jsonify(filtered_data) ==
    [i \in 1..Len(filtered_data) |->
        [c \in DOMAIN filtered_data[i] |->
            IF c = "Date" THEN http_date[filtered_data[i][c]]
            ELSE filtered_data[i][c]]]

\* line 228: the response once filtered_data is settled
api_return(filtered_data) ==
    [status |-> 200, body |-> jsonify(filtered_data),
     filtered_data |-> filtered_data]

\* lines 191-228: api_data() on a request
api_data(store, args) ==
    IF /\ args_get_ticker(args) \in DOMAIN store
       /\ api_date_raises(args_get(args, "start_date"),
                          args_get(args, "end_date"))
    THEN InternalServerError(<<>>)
    ELSE api_return(api_filtered_data(store, args))

----------------------------------------------------------------------------
(* The store across requests *)

\* store_after_request for handlers that sort the stored frame in place
store_after_request_in_place(store, args) ==
    IF /\ args_get_ticker(args) \in DOMAIN store
       /\ positive(args_get_float(args, "volume_increase_threshold"))
    THEN [store EXCEPT ![args_get_ticker(args)] = sort_values(@)]
    ELSE store

\* What a request leaves in the store.  Both handlers work on
\* data[ticker].copy() (lines 41, 204), every filter builds a new frame,
\* sort_values returns a new frame and the Volume_Change_Pct column is
\* assigned to that one: the store keeps its frames.
store_after_request(store, args) == store


----------------------------------------------------------------------------
(* The CSV files the loader reads *)

Dates == 1..NumDates

\* The prices and volume of one row.  Volume 0 is a day without trades.
Bars ==
    {[High |-> 20, Close |-> 10, Volume |-> 0],
     [High |-> 20, Close |-> 10, Volume |-> 100],
     [High |-> 30, Close |-> 20, Volume |-> 150]}

CsvRows ==
    {[Date |-> IsoDate[d], High |-> b.High, Close |-> b.Close,
      Volume |-> b.Volume] : d \in Dates, b \in Bars}

\* The files of up to MaxRows rows, in any file order, no day twice
CsvFiles ==
    UNION {{f \in [1..n -> CsvRows] :
               \A i, j \in 1..n : i # j => f[i].Date # f[j].Date} :
           n \in 0..MaxRows}

\* SPY's file in the stores that vary AAPL's: two rows, latest first
SpyFile ==
    <<[Date |-> IsoDate[2], High |-> 30, Close |-> 20, Volume |-> 150],
      [Date |-> IsoDate[1], High |-> 20, Close |-> 10, Volume |-> 100]>>

\* AAPL's file varies, SPY's is fixed, the other files have a header only
FilterStores ==
    {[t \in tickers |->
         IF t = "AAPL" THEN f ELSE IF t = "SPY" THEN SpyFile ELSE <<>>] :
     f \in CsvFiles}

\* The one row of a ticker other than AAPL in the stores that vary which
\* files have rows
OneRowFile ==
    [t \in tickers |->
        CASE t = "SPY" -> <<[Date |-> IsoDate[2], High |-> 30, Close |-> 20,
                             Volume |-> 100]>>
          [] t = "NVDA" -> <<[Date |-> IsoDate[1], High |-> 40, Close |-> 30,
                              Volume |-> 150]>>
          [] t = "TSLA" -> <<[Date |-> IsoDate[3], High |-> 10, Close |-> 5,
                              Volume |-> 0]>>
          [] t = "MSFT" -> <<[Date |-> IsoDate[NumDates], High |-> 20,
                              Close |-> 10, Volume |-> 200]>>
          [] OTHER -> <<>>]

\* AAPL's file varies, each other file has its one row or a header only
RangeStores ==
    {[t \in tickers |->
         IF t = "AAPL" THEN f ELSE IF t \in full THEN OneRowFile[t] ELSE <<>>] :
     f \in CsvFiles, full \in SUBSET (tickers \ {"AAPL"})}

----------------------------------------------------------------------------
(* The query strings *)

FilterKeys ==
    {"start_date", "end_date", "min_volume", "max_volume", "min_price",
     "max_price", "volume_increase_threshold"}

\* The texts a request may carry for each parameter: texts that do not
\* parse, values that are zero or negative, and values that select rows
Texts ==
    [start_date |-> {"", "soon", IsoDate[2], IsoDate[3]},
     end_date |-> {"", "2024-13-45", IsoDate[1], IsoDate[2]},
     min_volume |-> {"abc", "0", "100"},
     max_volume |-> {"1e", "-5", "100"},
     min_price |-> {"", "-5", "20"},
     max_price |-> {"abc", "-1", "10"},
     volume_increase_threshold |-> {"abc", "0", "-5", "50", "100"}]

\* The text that sets each parameter to a value that selects rows
SetText ==
    [start_date |-> IsoDate[2], end_date |-> IsoDate[3], min_volume |-> "100",
     max_volume |-> "150", min_price |-> "10", max_price |-> "20",
     volume_increase_threshold |-> "40"]

NoArgs ==
    [ticker |-> None, start_date |-> None, end_date |-> None,
     min_volume |-> None, max_volume |-> None, min_price |-> None,
     max_price |-> None, volume_increase_threshold |-> None]

\* The parameters of each filter stage
Stages ==
    {{"start_date", "end_date"}, {"min_volume", "max_volume"},
     {"min_price", "max_price"}, {"volume_increase_threshold"}}

\* Requests for the default ticker that set the parameters of any subset of
\* the stages
DenseRequests ==
    {[k \in DOMAIN NoArgs |->
         IF k \in UNION on THEN Some(SetText[k]) ELSE None] :
     on \in SUBSET Stages}

\* The requests the texts are tried in: no other parameter, and every other
\* parameter set
BaseRequests ==
    {NoArgs,
     [k \in DOMAIN NoArgs |-> IF k \in FilterKeys THEN Some(SetText[k]) ELSE None]}

\* A base request with one parameter replaced by one of its texts
VariedRequests ==
    {[b EXCEPT ![kv[1]] = Some(kv[2])] :
         b \in BaseRequests,
         kv \in UNION {{<<k, v>> : v \in Texts[k]} : k \in FilterKeys}}

\* Requests that name the ticker: one that is not in the store, SPY, and
\* NVDA whose file has no rows
NamedRequests ==
    {[a EXCEPT !.ticker = Some(t)] :
         a \in {NoArgs,
                [NoArgs EXCEPT !.start_date = Some("soon")],
                [NoArgs EXCEPT !.max_price = Some("10")],
                [NoArgs EXCEPT !.volume_increase_threshold = Some("50")]},
         t \in {"FOO", "SPY", "NVDA"}}

\* The requests of the written scenarios: a price range of [-5, -1] and a
\* date range that starts after it ends
ScenarioRequests ==
    {[NoArgs EXCEPT !.min_price = Some("-5"), !.max_price = Some("-1")],
     [NoArgs EXCEPT !.start_date = Some(IsoDate[3]), !.end_date = Some(IsoDate[1])]}

Requests ==
    DenseRequests \cup VariedRequests \cup NamedRequests \cup ScenarioRequests

RangeRequests ==
    {NoArgs, [NoArgs EXCEPT !.ticker = Some("FOO")],
     [NoArgs EXCEPT !.ticker = Some("MSFT")],
     [NoArgs EXCEPT !.min_volume = Some("100")],
     [NoArgs EXCEPT !.volume_increase_threshold = Some("50")],
     [NoArgs EXCEPT !.start_date = Some(IsoDate[2]), !.max_price = Some("10")]}

----------------------------------------------------------------------------
(* The program *)

\* No response on its way
NoResponse ==
    [route |-> "", args |-> NoArgs, status |-> 0, body |-> <<>>,
     filtered_data |-> <<>>]

\* Module import: data = load_data() (line 24)
InitWith(stores) ==
    /\ \E files \in stores : data = load_data(files)
    /\ loaded = data
    /\ resp = NoResponse

\* A GET of "/": the handler runs to its return
Dashboard(args) ==
    /\ resp.status = 0
    /\ resp' = [route |-> "/", args |-> args] @@ dashboard(data, args)
    /\ data' = store_after_request(data, args)
    /\ UNCHANGED loaded

\* A GET of "/api/data": the handler runs to its return
ApiData(args) ==
    /\ resp.status = 0
    /\ resp' = [route |-> "/api/data", args |-> args] @@ api_data(data, args)
    /\ data' = store_after_request(data, args)
    /\ UNCHANGED loaded

\* The server hands the response to the client and takes the next request
Deliver ==
    /\ resp.status # 0
    /\ resp' = NoResponse
    /\ UNCHANGED <<data, loaded>>

Init == InitWith(FilterStores)

Next ==
    \/ \E args \in Requests : Dashboard(args)
    \/ \E args \in Requests : ApiData(args)
    \/ Deliver

Spec == Init /\ [][Next]_vars

InitRanges == InitWith(RangeStores)

NextRanges ==
    \/ \E args \in RangeRequests : Dashboard(args)
    \/ \E args \in RangeRequests : ApiData(args)
    \/ Deliver

SpecRanges == InitRanges /\ [][NextRanges]_vars

----------------------------------------------------------------------------
(* What the properties speak of *)

Answered == resp.status # 0

Completed == resp.status = 200

KnownTicker(args) == args_get_ticker(args) \in tickers

\* The columns of the rows of a frame
Columns(df) ==
    [i \in 1..Len(df) |-> [c \in DOMAIN df[i] \ {"index"} |-> df[i][c]]]

\* The rows a handler ended with: the frame the charts are drawn from, or
\* the records of the JSON body; none when the request failed
RowsOf(route, r) ==
    IF r.status # 200 THEN <<>>
    ELSE IF route = "/"
         THEN (IF r.filtered_data = None THEN <<>>
               ELSE Columns(r.filtered_data[1]))
         ELSE r.filtered_data

Rows == RowsOf(resp.route, resp)

\* The response of a route to a request
Respond(route, store, args) ==
    IF route = "/" THEN dashboard(store, args) ELSE api_data(store, args)

NumericKeys ==
    {"min_volume", "max_volume", "min_price", "max_price",
     "volume_increase_threshold"}

DateKeys == {"start_date", "end_date"}

\* The number a numeric parameter sets: present, a numeral, above zero
IsSetNumber(args, k) ==
    /\ args[k] # None
    /\ args[k][1] \in DOMAIN float
    /\ float[args[k][1]] > 0

NumberOf(args, k) == float[args[k][1]]

\* The day a date parameter sets: present and the text of a day
IsSetDate(args, k) ==
    /\ args[k] # None
    /\ \E d \in DOMAIN IsoDate : IsoDate[d] = args[k][1]

DayOf(args, k) == CHOOSE d \in DOMAIN IsoDate : IsoDate[d] = args[k][1]

\* A date parameter that is absent or empty
NoDate(args, k) == args[k] = None \/ args[k][1] = ""

\* The row satisfies every bound the request sets
WithinBounds(row, args) ==
    /\ IsSetDate(args, "start_date") => row.Date >= DayOf(args, "start_date")
    /\ IsSetDate(args, "end_date") => row.Date <= DayOf(args, "end_date")
    /\ IsSetNumber(args, "min_volume") => row.Volume >= NumberOf(args, "min_volume")
    /\ IsSetNumber(args, "max_volume") => row.Volume <= NumberOf(args, "max_volume")
    /\ IsSetNumber(args, "min_price") => row.Close >= NumberOf(args, "min_price")
    /\ IsSetNumber(args, "max_price") => row.Close <= NumberOf(args, "max_price")

Range(f) == {f[i] : i \in DOMAIN f}

StoredRows(args) == Range(Columns(loaded[args_get_ticker(args)]))

----------------------------------------------------------------------------
(* C1 *)

\* C1: for a known ticker and a request without a volume-increase threshold,
\* the rows of a completed response are exactly the stored rows of the ticker
\* that satisfy every set bound (dates, Volume, Close, all inclusive), each
\* once; and a request whose dates parse completes, with no rows when
\* start_date is after end_date.
C1_ExactFilter ==
    (/\ Answered
     /\ KnownTicker(resp.args)
     /\ ~IsSetNumber(resp.args, "volume_increase_threshold"))
    => /\ Completed
          => /\ Range(Rows) = {r \in StoredRows(resp.args) :
                                  WithinBounds(r, resp.args)}
             /\ Len(Rows) = Cardinality(Range(Rows))
       /\ (\A k \in DateKeys : NoDate(resp.args, k) \/ IsSetDate(resp.args, k))
          => Completed
       /\ (/\ IsSetDate(resp.args, "start_date")
           /\ IsSetDate(resp.args, "end_date")
           /\ DayOf(resp.args, "start_date") > DayOf(resp.args, "end_date"))
          => Completed /\ Rows = <<>>

\* Every one of the six bounds is set, some stored rows pass and some do not
C1_Witness ==
    /\ Completed
    /\ KnownTicker(resp.args)
    /\ ~IsSetNumber(resp.args, "volume_increase_threshold")
    /\ \A k \in DateKeys : IsSetDate(resp.args, k)
    /\ \A k \in NumericKeys \ {"volume_increase_threshold"} :
           IsSetNumber(resp.args, k)
    /\ Rows # <<>>
    /\ Len(Rows) < Len(loaded[args_get_ticker(resp.args)])

----------------------------------------------------------------------------
(* C2 *)

Ascending(rows) ==
    \A i, j \in 1..Len(rows) : i < j => rows[i].Date < rows[j].Date

\* C2: the rows of every completed response for a known ticker are in
\* ascending Date order, whether or not the threshold stage ran.
C2_AscendingDates ==
    (Completed /\ KnownTicker(resp.args)) => Ascending(Rows)

----------------------------------------------------------------------------
(* C3 and C4 *)

\* The stored rows that pass the date, volume and price bounds, by Date
Survivors(args) ==
    sort_values(SelectSeq(loaded[args_get_ticker(args)],
                          LAMBDA r : WithinBounds(r, args)))

Threshold(args) == NumberOf(args, "volume_increase_threshold")

\* Row i of the survivors has a defined change and it reaches the threshold:
\* (volume[i] - volume[i-1]) / volume[i-1] * 100 >= threshold
ReachesThreshold(S, i, args) ==
    /\ i > 1
    /\ S[i - 1].Volume # 0
    /\ (S[i].Volume - S[i - 1].Volume) * 100 >= Threshold(args) * S[i - 1].Volume

DatesOf(rows) == {rows[i].Date : i \in 1..Len(rows)}

\* C3: with the threshold set, a row is retained if and only if it is not
\* the first survivor of the other filters and its change against the
\* survivor before it in Date order is defined and reaches the threshold;
\* each retained row carries that change.
C3_ChangeAgainstSurvivors ==
    (/\ Completed
     /\ KnownTicker(resp.args)
     /\ IsSetNumber(resp.args, "volume_increase_threshold"))
    => LET S == Survivors(resp.args)
       IN  /\ DatesOf(Rows) = {S[i].Date : i \in {j \in 1..Len(S) :
                                    ReachesThreshold(S, j, resp.args)}}
           /\ \A k \in 1..Len(Rows) : \A i \in 2..Len(S) :
                  (S[i].Date = Rows[k].Date /\ S[i - 1].Volume # 0)
                  => Rows[k].Volume_Change_Pct.num * S[i - 1].Volume
                     = (S[i].Volume - S[i - 1].Volume) * 100
                       * Rows[k].Volume_Change_Pct.den

\* C4: with the threshold set, a row whose preceding survivor has Volume 0
\* is never retained.
C4_ZeroPreviousVolumeDropped ==
    (/\ Completed
     /\ KnownTicker(resp.args)
     /\ IsSetNumber(resp.args, "volume_increase_threshold"))
    => LET S == Survivors(resp.args)
       IN  \A i \in 2..Len(S) :
               S[i - 1].Volume = 0 => S[i].Date \notin DatesOf(Rows)

----------------------------------------------------------------------------
(* C5 *)

\* The request without parameter k
Without(args, k) == [args EXCEPT ![k] = None]

\* A numeric parameter whose value is a numeral that is zero or negative
NotPositive(args, k) ==
    /\ args[k] # None
    /\ args[k][1] \in DOMAIN float
    /\ float[args[k][1]] <= 0

\* What a caller gets of a response: the status and the rows
Outcome(route, r) == <<r.status, RowsOf(route, r)>>

\* C5: a numeric parameter that is zero or negative is not applied: the
\* response has the status and rows of the response to the same request
\* without it; and with no date and no positive numeric parameter the rows
\* are all the stored rows of the ticker, unchanged.
C5_NotPositiveIsUnset ==
    Answered
    => /\ \A k \in NumericKeys :
              NotPositive(resp.args, k)
              => Outcome(resp.route, resp)
                 = Outcome(resp.route,
                           Respond(resp.route, data, Without(resp.args, k)))
       /\ (/\ KnownTicker(resp.args)
           /\ \A k \in DateKeys : resp.args[k] = None
           /\ \A k \in NumericKeys :
                  resp.args[k] = None \/ NotPositive(resp.args, k))
          => Completed /\ Rows = Columns(loaded[args_get_ticker(resp.args)])

\* min_price = -5 and max_price = -1 and nothing else, on a series with rows
C5_Witness ==
    /\ Completed
    /\ resp.args = [NoArgs EXCEPT !.min_price = Some("-5"),
                                  !.max_price = Some("-1")]
    /\ Len(Rows) > 1

----------------------------------------------------------------------------
(* C6 *)

\* C6: the response to a request for a ticker that is not in the store
\* differs, in status or payload, from every response of the same route to a
\* request for a known ticker whose filters leave no rows.
C6_UnknownDiffersFromEmpty ==
    (Completed /\ ~KnownTicker(resp.args))
    => \A args \in Requests :
           LET r == Respond(resp.route, data, args)
           IN  (KnownTicker(args) /\ r.status = 200
                /\ RowsOf(resp.route, r) = <<>>)
               => IF resp.route = "/"
                  THEN <<resp.status, resp.body.price_html,
                         resp.body.volume_html>>
                       # <<r.status, r.body.price_html, r.body.volume_html>>
                  ELSE <<resp.status, resp.body>> # <<r.status, r.body>>

----------------------------------------------------------------------------
(* C7 *)

\* A parameter whose text does not parse: not a numeral, not a day
Malformed(args, k) ==
    /\ args[k] # None
    /\ IF k \in DateKeys
       THEN args[k][1] # "" /\ \A d \in DOMAIN IsoDate : IsoDate[d] # args[k][1]
       ELSE args[k][1] \notin DOMAIN float

\* C7: a request with a parameter that does not parse completes, with the
\* rows of the same request without that parameter.
C7_MalformedIsUnset ==
    Answered
    => \A k \in FilterKeys :
           Malformed(resp.args, k)
           => /\ Completed
              /\ Rows = RowsOf(resp.route,
                               Respond(resp.route, data, Without(resp.args, k)))

----------------------------------------------------------------------------
(* C8 *)

SameResponse(r) ==
    /\ resp.status = r.status
    /\ resp.body = r.body
    /\ resp.filtered_data = r.filtered_data

----------------------------------------------------------------------------
(* C9 *)

AllStoredRows == UNION {Range(data[t]) : t \in DOMAIN data}

\* C9: the ranges dashboard() computes are the least and greatest Date,
\* Volume and Close over every row of every frame of the store, whatever the
\* request; with no row in the store they are 0 and the empty string.
C9_GlobalRanges ==
    (Completed /\ resp.route = "/")
    => LET g == resp.body
       IN  IF AllStoredRows = {}
           THEN /\ g.min_date = "" /\ g.max_date = ""
                /\ g.min_vol = 0 /\ g.max_vol = 0
                /\ g.min_price_val = 0 /\ g.max_price_val = 0
           ELSE /\ \E r \in AllStoredRows : IsoDate[r.Date] = g.min_date
                /\ \E r \in AllStoredRows : IsoDate[r.Date] = g.max_date
                /\ \E r \in AllStoredRows : r.Volume = g.min_vol
                /\ \E r \in AllStoredRows : r.Volume = g.max_vol
                /\ \E r \in AllStoredRows : r.Close = g.min_price_val
                /\ \E r \in AllStoredRows : r.Close = g.max_price_val
                /\ \A r \in AllStoredRows :
                       /\ \E lo \in 1..r.Date : IsoDate[lo] = g.min_date
                       /\ \E hi \in r.Date..Len(IsoDate) : IsoDate[hi] = g.max_date
                       /\ g.min_vol <= r.Volume /\ r.Volume <= g.max_vol
                       /\ g.min_price_val <= r.Close
                       /\ r.Close <= g.max_price_val

\* The greatest volume and the least price are those of files other than
\* the selected ticker's, whose own rows were filtered
C9_Witness ==
    /\ Completed
    /\ resp.route = "/"
    /\ resp.body.selected_ticker = "AAPL"
    /\ resp.args.min_volume # None
    /\ Len(data["AAPL"]) > 1
    /\ resp.body.max_vol = 200
    /\ resp.body.min_price_val = 5

----------------------------------------------------------------------------
(* C10 *)

OtherRoute == IF resp.route = "/" THEN "/api/data" ELSE "/"

\* The chart of one column of the rows against their dates; no markup when
\* there are no rows
Chart(rows, col) ==
    IF rows = <<>> THEN <<>>
    ELSE <<[x |-> [i \in 1..Len(rows) |-> rows[i].Date],
            y |-> [i \in 1..Len(rows) |-> rows[i][col]]]>>

\* C10: both routes answer a request alike: the same status, the same rows
\* in the same order, which are the rows the charts of "/" show; and the
\* rows carry Volume_Change_Pct if and only if the threshold was set.
C10_RoutesAgree ==
    Answered
    => /\ Outcome(resp.route, resp)
          = Outcome(OtherRoute, Respond(OtherRoute, data, resp.args))
       /\ (Completed /\ resp.route = "/")
          => /\ resp.body.price_html = Chart(Rows, "Close")
             /\ resp.body.volume_html = Chart(Rows, "Volume")
       /\ \A i \in 1..Len(Rows) :
              ("Volume_Change_Pct" \in DOMAIN Rows[i])
              <=> IsSetNumber(resp.args, "volume_increase_threshold")

\* The JSON route returned rows with their change, from a file that is not
\* in Date order
C10_Witness ==
    /\ Completed
    /\ resp.route = "/api/data"
    /\ KnownTicker(resp.args)
    /\ IsSetNumber(resp.args, "volume_increase_threshold")
    /\ ~Ascending(loaded[args_get_ticker(resp.args)])
    /\ Len(Rows) > 1

====
